---------------------------- MODULE Spec2Model ----------------------------
(***************************************************************************)
(* Model of src/preprocess.py: the per-sample unit process_file and the    *)
(* site / group / worker-pool loop of generate_expression_csvs.            *)
(*                                                                         *)
(* Python values are represented as follows.                               *)
(*   - An optional value is a sequence of length 0 (None) or 1 (Some(x)).  *)
(*   - A str that the code inspects character by character (sample_type,   *)
(*     gene_id) is a sequence of one-character strings.                    *)
(*   - A pandas Series is [name, index, values]; a DataFrame is            *)
(*     [columns, index, cols] with cols[k] the values of column k in row   *)
(*     order.  NaN is the number -1 (all measures in the files are >= 0).  *)
(*                                                                         *)
(* Three specifications: Spec runs the pipeline over the sites; FairSpec   *)
(* is Spec with the scheduling of its threads; UnitSpec applies            *)
(* process_file (after the fetch) to tables drawn from a bounded set.      *)
(***************************************************************************)
EXTENDS Integers, Sequences, FiniteSets, TLC

-----------------------------------------------------------------------------
(* Bounds of the model. *)

\* Largest number of rows get_rna_seq_metadata returns for one site.
MaxRecords == 4

\* Largest worker-pool size explored (the source fixes max_workers=25; the
\* model runs the pool with every size 1..MaxPool so that the limit binds).
MaxPool == 2

\* Data rows of a table drawn for a stand-alone call of process_file.
MaxRows == 2

-----------------------------------------------------------------------------
(* Python built-ins used by the code. *)

None == <<>>

Some(x) == <<x>>

NaN == -1

Range(s) == {s[i] : i \in DOMAIN s}

\* Body(value) with the value computed once, as a local variable of the code
\* is: the body sees the value, not the expression that gave it.
With(value, Body(_)) == CHOOSE r \in {Body(x) : x \in {value}} : TRUE

\* str.startswith
startswith(s, prefix) ==
    /\ Len(s) >= Len(prefix)
    /\ SubSeq(s, 1, Len(prefix)) = prefix

\* str.contains (a plain substring here: the patterns have no regex syntax)
contains(s, pat) ==
    \E i \in 1..(Len(s) - Len(pat) + 1) : SubSeq(s, i, i + Len(pat) - 1) = pat

UpperCase == <<"A","B","C","D","E","F","G","H","I","J","K","L","M",
               "N","O","P","Q","R","S","T","U","V","W","X","Y","Z">>

LowerCase == <<"a","b","c","d","e","f","g","h","i","j","k","l","m",
               "n","o","p","q","r","s","t","u","v","w","x","y","z">>

\* str.lower
lower(s) ==
    [i \in DOMAIN s |->
        IF \E k \in DOMAIN UpperCase : UpperCase[k] = s[i]
        THEN LowerCase[CHOOSE k \in DOMAIN UpperCase : UpperCase[k] = s[i]]
        ELSE s[i]]

\* Position of a column label in a header, 0 when absent.
ColPos(columns, col) ==
    IF \E k \in DOMAIN columns : columns[k] = col
    THEN CHOOSE k \in DOMAIN columns :
            /\ columns[k] = col
            /\ \A j \in 1..(k - 1) : columns[j] # col
    ELSE 0

RECURSIVE SelectIdx(_, _)
\* The positions of s, ascending, at which keep is TRUE.
SelectIdx(keep, n) ==
    IF n = 0 THEN <<>>
    ELSE IF keep[n] THEN Append(SelectIdx(keep, n - 1), n)
         ELSE SelectIdx(keep, n - 1)

-----------------------------------------------------------------------------
(* The world outside the program: what DATA_ENDPOINT serves for each       *)
(* file_id and what FILES_ENDPOINT can list.                               *)

\* One line of a TSV payload: a comment line, or the cells of a row.
CommentLine == [comment |-> TRUE, cells |-> <<>>]

Line(cells) == [comment |-> FALSE, cells |-> cells]

AllColumns ==
    <<"gene_id", "gene_name", "gene_type",
      "tpm_unstranded", "fpkm_unstranded", "fpkm_uq_unstranded">>

NoUqColumns ==
    <<"gene_id", "gene_name", "gene_type", "tpm_unstranded", "fpkm_unstranded">>

NoIdColumns ==
    <<"gene_name", "gene_type",
      "tpm_unstranded", "fpkm_unstranded", "fpkm_uq_unstranded">>

N_unmapped == <<"N", "_", "u", "n", "m", "a", "p", "p", "e", "d">>

N_ambiguous == <<"N", "_", "a", "m", "b", "i", "g", "u", "o", "u", "s">>

G1 == <<"E", "N", "S", "G", "1">>

G2 == <<"E", "N", "S", "G", "2">>

G3 == <<"E", "N", "S", "G", "3">>

G4 == <<"E", "N", "S", "G", "4">>

\* A data row of a full table; k tells the files apart in the measures.
GeneRow(gid, gname, k, g) ==
    Line(<<gid, gname, "protein_coding", 10 * k + g, 20 * k + g, 30 * k + g>>)

SummaryRow(gid) == Line(<<gid, "", "", 0, 0, 0>>)

\* Summary rows first, then G1 G2 G3 (the layout of a STAR counts file).
StdTable(k) ==
    <<CommentLine, Line(AllColumns), SummaryRow(N_unmapped),
      GeneRow(G1, "A", k, 1), GeneRow(G2, "B", k, 2), GeneRow(G3, "C", k, 3)>>

\* No summary rows and one gene more: other row positions, other length.
LongTable(k) ==
    <<CommentLine, Line(AllColumns),
      GeneRow(G1, "A", k, 1), GeneRow(G2, "B", k, 2), GeneRow(G3, "C", k, 3),
      GeneRow(G4, "D", k, 4)>>

\* A summary row in the middle and one gene fewer.
ShortTable(k) ==
    <<CommentLine, Line(AllColumns), SummaryRow(N_unmapped),
      GeneRow(G1, "A", k, 1), SummaryRow(N_ambiguous), GeneRow(G2, "B", k, 2)>>

\* Same row positions as StdTable, genes in another order.
SwappedTable(k) ==
    <<CommentLine, Line(AllColumns), SummaryRow(N_unmapped),
      GeneRow(G3, "C", k, 3), GeneRow(G1, "A", k, 1), GeneRow(G2, "B", k, 2)>>

NoUqTable(k) ==
    <<CommentLine, Line(NoUqColumns), SummaryRow(N_unmapped),
      Line(<<G1, "A", "protein_coding", 10 * k + 1, 20 * k + 1>>),
      Line(<<G2, "B", "protein_coding", 10 * k + 2, 20 * k + 2>>),
      Line(<<G3, "C", "protein_coding", 10 * k + 3, 20 * k + 3>>)>>

NoIdTable(k) ==
    <<CommentLine, Line(NoIdColumns),
      Line(<<"A", "protein_coding", 10 * k + 1, 20 * k + 1, 30 * k + 1>>)>>

\* First four bytes of a gzip member and of a plain payload ("# ge").
GzipHead == <<31, 139, 8, 0>>

PlainHead == <<35, 32, 103, 101>>

\* response.content: its leading bytes, whether a gzip stream in it is
\* well formed, and the text it carries (after decompression when framed).
Plain(lines) == [head |-> PlainHead, intact |-> TRUE, lines |-> lines]

Gzipped(lines) == [head |-> GzipHead, intact |-> TRUE, lines |-> lines]

CorruptGzip == [head |-> GzipHead, intact |-> FALSE, lines |-> <<>>]

\* What requests.get does: raises (error # "none") or returns a response.
Served(content) == [error |-> "none", status_code |-> 200, content |-> content]

HttpError(code) == [error |-> "none", status_code |-> code, content |-> Plain(<<>>)]

Raised(kind) == [error |-> kind, status_code |-> 0, content |-> Plain(<<>>)]

\* requests.get(f"{data_endpoint}/{file_id}", stream=True, timeout=30)
requests_get(file_id) ==
    CASE file_id = "f1" -> Served(Plain(StdTable(1)))
      [] file_id = "f2" -> Served(Gzipped(StdTable(2)))
      [] file_id = "f3" -> Served(Plain(NoUqTable(3)))
      [] file_id = "f4" -> HttpError(404)
      [] file_id = "f5" -> Served(CorruptGzip)
      [] file_id = "f6" -> Served(Plain(LongTable(6)))
      [] file_id = "f7" -> Served(Gzipped(ShortTable(7)))
      [] file_id = "f8" -> Served(Plain(SwappedTable(8)))
      [] file_id = "f9" -> Raised("Timeout")
      [] file_id = "f10" -> Served(Plain(NoIdTable(10)))
      [] OTHER -> Raised("ConnectionError")

-----------------------------------------------------------------------------
(* process_file: fetch, decode, extract.                                   *)
(* A step that can raise yields a record whose exception field names the   *)
(* exception ("none" when it returns).                                      *)

NoFrame(kind) ==
    [exception |-> kind, columns |-> <<>>, index |-> <<>>, rows |-> <<>>]

\* pd.read_csv(f, sep='\t', comment='#'): comment lines are dropped, the
\* first remaining line is the header, the rest are rows labelled 0, 1, ...
\* With no line left pandas raises EmptyDataError.
read_csv(lines) ==
    LET kept == SelectSeq(lines, LAMBDA l : ~l.comment)
    IN  IF kept = <<>>
        THEN NoFrame("EmptyDataError")
        ELSE [exception |-> "none",
              columns   |-> Head(kept).cells,
              index     |-> [i \in 1..(Len(kept) - 1) |-> i - 1],
              rows      |-> [i \in 1..(Len(kept) - 1) |-> kept[i + 1].cells]]

\* df[col] as a list of values in row order (col must be a column of df).
Column(df, col) == [i \in DOMAIN df.rows |-> df.rows[i][ColPos(df.columns, col)]]

\* DropSummaryRows with str.contains('N_') for str.startswith('N_').
DropSummaryRows_contains(df) ==
    LET ids  == Column(df, "gene_id")
        keep == [i \in DOMAIN ids |-> ~contains(ids[i], <<"N", "_">>)]
    IN  With(SelectIdx(keep, Len(ids)), LAMBDA pos :
            [exception |-> "none",
             columns   |-> df.columns,
             index     |-> [j \in DOMAIN pos |-> df.index[pos[j]]],
             rows      |-> [j \in DOMAIN pos |-> df.rows[pos[j]]]])

\* df[~df['gene_id'].str.startswith('N_')]: rows keep their index labels.
DropSummaryRows(df) ==
    LET ids  == Column(df, "gene_id")
        keep == [i \in DOMAIN ids |-> ~startswith(ids[i], <<"N", "_">>)]
    IN  With(SelectIdx(keep, Len(ids)), LAMBDA pos :
            [exception |-> "none",
             columns   |-> df.columns,
             index     |-> [j \in DOMAIN pos |-> df.index[pos[j]]],
             rows      |-> [j \in DOMAIN pos |-> df.rows[pos[j]]]])

required_columns ==
    <<"gene_id", "gene_name", "tpm_unstranded", "fpkm_unstranded",
      "fpkm_uq_unstranded">>

\* df[col].rename(sample_id)
Series(df, col, sample_id) ==
    [name |-> sample_id, index |-> df.index, values |-> Column(df, col)]

\* return None, None, None, None, None (with the line printed before it)
AllNone(msg) ==
    [tpm_series |-> None, fpkm_series |-> None, fpkm_uq_series |-> None,
     gene_ids |-> None, gene_names |-> None, printed |-> msg,
     exception |-> "none"]

\* An exception leaves the function: nothing is returned.
Raise(kind) ==
    [tpm_series |-> None, fpkm_series |-> None, fpkm_uq_series |-> None,
     gene_ids |-> None, gene_names |-> None, printed |-> "",
     exception |-> kind]

\* is_gzipped with the two signature bytes in the other order.
is_gzipped_swapped(content) ==
    startswith(SubSeq(content.head, 1, 4), <<139, 31>>)

\* is_gzipped = response.content[:4].startswith(b'\x1f\x8b')
is_gzipped(content) == startswith(SubSeq(content.head, 1, 4), <<31, 139>>)

\* The bytes are a gzip member: they begin with ID1 ID2 = 1f 8b.
Compressed(content) ==
    Len(content.head) >= 2 /\ content.head[1] = 31 /\ content.head[2] = 139

\* Lines 23-27: GzipFile raises on bytes that are no well-formed gzip
\* stream; read_csv on compressed bytes finds no text to decode.
Decode(content) ==
    IF is_gzipped(content)
    THEN IF Compressed(content) /\ content.intact THEN read_csv(content.lines)
         ELSE NoFrame("BadGzipFile")
    ELSE IF Compressed(content) THEN NoFrame("UnicodeDecodeError")
         ELSE read_csv(content.lines)

\* Lines 29-43, on a parsed table.
Extract(df0, sample_id) ==
    IF ColPos(df0.columns, "gene_id") = 0
    THEN Raise("KeyError")                           \* df['gene_id'], line 29
    ELSE With(DropSummaryRows(df0), LAMBDA df :
             IF ~(\A k \in DOMAIN required_columns :
                     ColPos(df.columns, required_columns[k]) # 0)
             THEN AllNone("Missing required columns")
             ELSE [tpm_series     |-> Some(Series(df, "tpm_unstranded", sample_id)),
                   fpkm_series    |-> Some(Series(df, "fpkm_unstranded", sample_id)),
                   fpkm_uq_series |-> Some(Series(df, "fpkm_uq_unstranded", sample_id)),
                   gene_ids       |-> Some(Column(df, "gene_id")),
                   gene_names     |-> Some(Column(df, "gene_name")),
                   printed        |-> "Processed file",
                   exception      |-> "none"])

\* Lines 20-43, on the payload of the response.
ReadAndExtract(content, sample_id) ==
    With(Decode(content), LAMBDA df0 :
        IF df0.exception # "none"
        THEN Raise(df0.exception)
        ELSE Extract(df0, sample_id))

\* Lines 44-46: except Exception prints and returns the five None.
Except(r) ==
    IF r.exception # "none" THEN AllNone("Error processing file") ELSE r

DATA_ENDPOINT == "https://api.gdc.cancer.gov/data"

\* The body of the try statement, lines 17-43.
TryBody(file_id, sample_id, file_name, data_endpoint) ==
    LET response == IF data_endpoint = DATA_ENDPOINT
                    THEN requests_get(file_id)
                    ELSE Raised("ConnectionError")
    IN  IF response.error # "none"
        THEN Raise(response.error)                   \* requests.get raised
        ELSE IF response.status_code >= 400
        THEN Raise("HTTPError")                      \* raise_for_status
        ELSE ReadAndExtract(response.content, sample_id)

\* process_file without its except clause: an exception of the body leaves
\* the function.
process_file_uncaught(file_id, sample_id, file_name, data_endpoint) ==
    TryBody(file_id, sample_id, file_name, data_endpoint)

\* Lines 15-46: except Exception turns every exception of the body into
\* the all-None return.
process_file(file_id, sample_id, file_name, data_endpoint) ==
    With(TryBody(file_id, sample_id, file_name, data_endpoint), Except)

-----------------------------------------------------------------------------
(* pandas operations of the aggregation (lines 143-154).                   *)

RECURSIVE UnionIndex(_, _)
\* Row labels of pd.concat(series, axis=1): the labels of the first series,
\* then the labels of each later series that were not seen before.
UnionIndex(series, n) ==
    IF n = 0 THEN <<>>
    ELSE LET sofar == UnionIndex(series, n - 1)
         IN  sofar \o SelectSeq(series[n].index, LAMBDA l : l \notin Range(sofar))

\* The value of a series at a row label, NaN where it has no such label.
ValueAt(s, label) ==
    IF \E i \in DOMAIN s.index : s.index[i] = label
    THEN s.values[CHOOSE i \in DOMAIN s.index : s.index[i] = label]
    ELSE NaN

\* pd.concat(series, axis=1): one column per series, named by the series,
\* rows aligned on the index labels (outer join).
pd_concat(series) ==
    With(UnionIndex(series, Len(series)), LAMBDA index :
        [columns |-> [k \in DOMAIN series |-> series[k].name],
         index   |-> index,
         cols    |-> [k \in DOMAIN series |->
                        [r \in DOMAIN index |-> ValueAt(series[k], index[r])]]])

\* DataFrame.insert raises ValueError when the list is not as long as the
\* frame's index, or when the label is already a column.
CanInsert(matrix, column, value) ==
    /\ Len(value) = Len(matrix.index)
    /\ column \notin Range(matrix.columns)

\* matrix.insert(0, column, value)
insert(matrix, column, value) ==
    [columns |-> <<column>> \o matrix.columns,
     index   |-> matrix.index,
     cols    |-> <<value>> \o matrix.cols]

\* The series of data without those whose name an earlier series carries.
DistinctNames(data) ==
    LET pos == SelectIdx([k \in DOMAIN data |->
                            \A j \in 1..(k - 1) : data[j].name # data[k].name],
                         Len(data))
    IN  [j \in DOMAIN pos |-> data[pos[j]]]

\* BuildMatrix keeping one column per sample_id (as a dict keyed by the
\* label would).
BuildMatrix_dedup(data, gene_ids, gene_names) ==
    LET m0 == pd_concat(DistinctNames(data))
    IN  IF ~CanInsert(m0, "gene_name", gene_names)
        THEN [ok |-> FALSE, matrix |-> m0]
        ELSE LET m1 == insert(m0, "gene_name", gene_names)
             IN  IF ~CanInsert(m1, "gene_id", gene_ids)
                 THEN [ok |-> FALSE, matrix |-> m1]
                 ELSE [ok |-> TRUE, matrix |-> insert(m1, "gene_id", gene_ids)]

\* BuildMatrix with the two inserts in the other order: gene_name ends up
\* in front of gene_id.
BuildMatrix_swapped(data, gene_ids, gene_names) ==
    LET m0 == pd_concat(data)
    IN  IF ~CanInsert(m0, "gene_id", gene_ids)
        THEN [ok |-> FALSE, matrix |-> m0]
        ELSE LET m1 == insert(m0, "gene_id", gene_ids)
             IN  IF ~CanInsert(m1, "gene_name", gene_names)
                 THEN [ok |-> FALSE, matrix |-> m1]
                 ELSE [ok |-> TRUE, matrix |-> insert(m1, "gene_name", gene_names)]

\* Lines 143-154 for one measure: concat, then gene_name, then gene_id at 0.
\* ok is FALSE where one of the two inserts raises.
BuildMatrix(data, gene_ids, gene_names) ==
    With(pd_concat(data), LAMBDA m0 :
        IF ~CanInsert(m0, "gene_name", gene_names)
        THEN [ok |-> FALSE, matrix |-> m0]
        ELSE With(insert(m0, "gene_name", gene_names), LAMBDA m1 :
                 IF ~CanInsert(m1, "gene_id", gene_ids)
                 THEN [ok |-> FALSE, matrix |-> m1]
                 ELSE [ok |-> TRUE, matrix |-> insert(m1, "gene_id", gene_ids)]))

-----------------------------------------------------------------------------
(* What FILES_ENDPOINT lists (get_rna_seq_metadata, lines 77-95).          *)

PrimaryTumor == <<"P", "r", "i", "m", "a", "r", "y", " ", "T", "u", "m", "o", "r">>

RecurrentTumor == <<"R", "e", "c", "u", "r", "r", "e", "n", "t", " ", "T", "u", "m", "o", "r">>

SolidTissueNormal == <<"S", "o", "l", "i", "d", " ", "T", "i", "s", "s", "u", "e", " ", "N", "o", "r", "m", "a", "l">>

BloodDerivedNormal == <<"B", "l", "o", "o", "d", " ", "D", "e", "r", "i", "v", "e", "d", " ", "N", "o", "r", "m", "a", "l">>

Metastatic == <<"M", "e", "t", "a", "s", "t", "a", "t", "i", "c">>

TumorAdjacentNormal == <<"T", "u", "m", "o", "r", " ", "A", "d", "j", "a", "c", "e", "n", "t", " ", "N", "o", "r", "m", "a", "l">>

\* One row of the DataFrame get_rna_seq_metadata returns.
Hit(file_id, sample_id, sample_type) ==
    [file_id |-> file_id, sample_barcode |-> sample_id,
     sample_type |-> sample_type, file_name |-> file_id]

\* The list of sites of line 173, cut to two.
cancer_sites == <<"Adrenal Gland", "Bladder">>

\* Every (file, sample) pair the repository can hold for a site, in the
\* order of the response.  In the first site f1 is one file with two
\* samples; in the second two files carry the same sample S1.
SiteHits(site) ==
    CASE site = "Adrenal Gland" ->
            <<Hit("f1", "S1", PrimaryTumor),
              Hit("f2", "S2", PrimaryTumor),
              Hit("f3", "S3", PrimaryTumor),
              Hit("f8", "S4", RecurrentTumor),
              Hit("f6", "S5", SolidTissueNormal),
              Hit("f1", "S6", SolidTissueNormal),
              Hit("f4", "S7", BloodDerivedNormal)>>
      [] site = "Bladder" ->
            <<Hit("f7", "S1", PrimaryTumor),
              Hit("f2", "S1", PrimaryTumor),
              Hit("f6", "S3", TumorAdjacentNormal),
              Hit("f9", "S4", SolidTissueNormal),
              Hit("f5", "S5", SolidTissueNormal),
              Hit("f10", "S6", SolidTissueNormal),
              Hit("f1", "S7", Metastatic)>>
      [] OTHER -> <<>>

\* The rows of hits at the positions in S, in the order of hits.
Rows(hits, S) ==
    With(SelectIdx([i \in DOMAIN hits |-> i \in S], Len(hits)), LAMBDA pos :
        [j \in DOMAIN pos |-> hits[pos[j]]])

\* The DataFrames get_rna_seq_metadata can return for a site: any part of
\* the site's hits, of at most MaxRecords rows; empty when the request
\* fails (line 75) or nothing matches.
get_rna_seq_metadata(site) ==
    {Rows(SiteHits(site), S) :
        S \in {T \in SUBSET DOMAIN SiteHits(site) : Cardinality(T) <= MaxRecords}}

-----------------------------------------------------------------------------
(* generate_expression_csvs as a state machine.                            *)

VARIABLES
    max_workers,        \* size of the ThreadPoolExecutor (line 120)
    site_idx,           \* position of the site loop in cancer_sites (line 98)
    pc,                 \* "site", "group", "submit", "collect", "done", "raised"
    sample_df,          \* line 103
    tumor_sample_df,    \* line 108
    normal_sample_df,   \* line 109
    label_idx,          \* position of the group loop in labels (line 111)
    futures,            \* the futures of future_to_file, in submission order
    yielded,            \* the futures as_completed has yielded, in that order
    tpm_data,           \* line 117
    fpkm_data,
    fpkm_uq_data,
    new_gene_ids,       \* line 118
    new_gene_names,
    csvs,               \* the files of OUTPUT_DIR: label -> the three matrices
    outcome,            \* how each group of the current site ended
    unit                \* a stand-alone call of process_file: table and returns

vars ==
    <<max_workers, site_idx, pc, sample_df, tumor_sample_df, normal_sample_df,
      label_idx, futures, yielded, tpm_data, fpkm_data, fpkm_uq_data,
      new_gene_ids, new_gene_names, csvs, outcome, unit>>

\* The labels of the group loop, line 111.
labels == <<"tumor", "normal">>

\* FilterByType without .str.lower(): a case-sensitive match.
FilterByType_cased(df, pat) ==
    SelectSeq(df, LAMBDA row : contains(row.sample_type, pat))

\* sample_df[sample_df["sample_type"].str.lower().str.contains(pat)]
FilterByType(df, pat) ==
    SelectSeq(df, LAMBDA row : contains(lower(row.sample_type), pat))

\* group_df of the current iteration of the group loop.
group_df ==
    IF labels[label_idx] = "tumor" THEN tumor_sample_df ELSE normal_sample_df

NoOutcome == [l \in Range(labels) |-> "none"]

NoCsvs == [l \in Range(labels) |-> None]

\* No stand-alone call: the run of the pipeline makes its calls through the
\* pool.
NoUnit == [lines |-> <<>>, plain |-> None, gzip |-> None, filtered |-> None]

Init ==
    /\ max_workers \in 1..MaxPool
    /\ site_idx = 1
    /\ pc = "site"
    /\ sample_df = <<>>
    /\ tumor_sample_df = <<>>
    /\ normal_sample_df = <<>>
    /\ label_idx = 1
    /\ futures = <<>>
    /\ yielded = <<>>
    /\ tpm_data = <<>>
    /\ fpkm_data = <<>>
    /\ fpkm_uq_data = <<>>
    /\ new_gene_ids = None
    /\ new_gene_names = None
    /\ csvs = NoCsvs
    /\ outcome = NoOutcome
    /\ unit = NoUnit

\* Where the site loop stands after the site at position i is finished.
AfterSite(i) == IF i < Len(cancer_sites) THEN "site" ELSE "done"

\* Values the previous site left in the locals of the group loop are never
\* read again (lines 117-118 and 121 assign them before their next use);
\* the model drops them when a site begins.
ForgetGroupLocals ==
    /\ futures' = <<>>
    /\ yielded' = <<>>
    /\ tpm_data' = <<>>
    /\ fpkm_data' = <<>>
    /\ fpkm_uq_data' = <<>>
    /\ new_gene_ids' = None
    /\ new_gene_names' = None

\* Lines 98-106: the metadata of the site is empty, the site is skipped.
SkipSite ==
    /\ pc = "site"
    /\ <<>> \in get_rna_seq_metadata(cancer_sites[site_idx])
    /\ sample_df' = <<>>
    /\ site_idx' = site_idx + 1
    /\ pc' = AfterSite(site_idx)
    /\ csvs' = NoCsvs
    /\ outcome' = NoOutcome
    /\ ForgetGroupLocals
    /\ UNCHANGED <<unit, max_workers, tumor_sample_df, normal_sample_df, label_idx>>

\* Lines 98-110: a new OUTPUT_DIR, the metadata, the two groups.
StartSite ==
    /\ pc = "site"
    /\ \E df \in get_rna_seq_metadata(cancer_sites[site_idx]) :
          /\ df # <<>>
          /\ sample_df' = df
          /\ tumor_sample_df' = FilterByType(df, <<"t", "u", "m", "o", "r">>)
          /\ normal_sample_df' = FilterByType(df, <<"n", "o", "r", "m", "a", "l">>)
    /\ label_idx' = 1
    /\ pc' = "group"
    /\ csvs' = NoCsvs
    /\ outcome' = NoOutcome
    /\ ForgetGroupLocals
    /\ UNCHANGED <<unit, max_workers, site_idx>>

\* The group loop moves on (continue, or the end of its body); after the
\* last label the site loop moves on.
NextGroup ==
    IF label_idx < Len(labels)
    THEN /\ label_idx' = label_idx + 1
         /\ pc' = "group"
         /\ site_idx' = site_idx
    ELSE /\ label_idx' = 1
         /\ pc' = AfterSite(site_idx)
         /\ site_idx' = site_idx + 1

\* Lines 111-114: the group has no rows.
SkipGroup ==
    /\ pc = "group"
    /\ group_df = <<>>
    /\ outcome' = [outcome EXCEPT ![labels[label_idx]] = "no_samples"]
    /\ NextGroup
    /\ UNCHANGED <<unit, max_workers, sample_df, tumor_sample_df, normal_sample_df,
                   futures, yielded, tpm_data, fpkm_data, fpkm_uq_data,
                   new_gene_ids, new_gene_names, csvs>>

\* Lines 116-120: fresh builders, no canonical axis, a new executor.
StartGroup ==
    /\ pc = "group"
    /\ group_df # <<>>
    /\ tpm_data' = <<>>
    /\ fpkm_data' = <<>>
    /\ fpkm_uq_data' = <<>>
    /\ new_gene_ids' = None
    /\ new_gene_names' = None
    /\ futures' = <<>>
    /\ yielded' = <<>>
    /\ pc' = "submit"
    /\ UNCHANGED <<unit, max_workers, site_idx, sample_df, tumor_sample_df,
                   normal_sample_df, label_idx, csvs, outcome>>

\* Lines 121-126: executor.submit for the next row of group_df.
Submit ==
    /\ pc = "submit"
    /\ LET row == group_df[Len(futures) + 1]
       IN  futures' = Append(futures,
                [file_id |-> row.file_id, sample_barcode |-> row.sample_barcode,
                 file_name |-> row.file_name, state |-> "PENDING",
                 result |-> None])
    /\ pc' = IF Len(futures) + 1 = Len(group_df) THEN "collect" ELSE "submit"
    /\ UNCHANGED <<unit, max_workers, site_idx, sample_df, tumor_sample_df,
                   normal_sample_df, label_idx, yielded, tpm_data, fpkm_data,
                   fpkm_uq_data, new_gene_ids, new_gene_names, csvs, outcome>>

Running == {i \in DOMAIN futures : futures[i].state = "RUNNING"}

Pending == {i \in DOMAIN futures : futures[i].state = "PENDING"}

Finished == {i \in DOMAIN futures : futures[i].state = "FINISHED"}

\* Start with a thread for every work item, whatever max_workers is.
Start_unbounded(i) ==
    /\ pc \in {"submit", "collect"}
    /\ i \in Pending
    /\ \A j \in Pending : i <= j
    /\ futures' = [futures EXCEPT ![i].state = "RUNNING"]
    /\ UNCHANGED <<unit, max_workers, site_idx, pc, sample_df, tumor_sample_df,
                   normal_sample_df, label_idx, yielded, tpm_data, fpkm_data,
                   fpkm_uq_data, new_gene_ids, new_gene_names, csvs, outcome>>

\* A worker thread of the pool takes the oldest queued work item; the pool
\* never has more than max_workers threads.
Start(i) ==
    /\ pc \in {"submit", "collect"}
    /\ i \in Pending
    /\ \A j \in Pending : i <= j
    /\ Cardinality(Running) < max_workers
    /\ futures' = [futures EXCEPT ![i].state = "RUNNING"]
    /\ UNCHANGED <<unit, max_workers, site_idx, pc, sample_df, tumor_sample_df,
                   normal_sample_df, label_idx, yielded, tpm_data, fpkm_data,
                   fpkm_uq_data, new_gene_ids, new_gene_names, csvs, outcome>>

\* The worker runs process_file to its return and sets the future's result.
Finish(i) ==
    /\ pc \in {"submit", "collect"}
    /\ i \in Running
    /\ futures' = [futures EXCEPT
            ![i].state = "FINISHED",
            ![i].result = Some(process_file(futures[i].file_id,
                                            futures[i].sample_barcode,
                                            futures[i].file_name,
                                            DATA_ENDPOINT))]
    /\ UNCHANGED <<unit, max_workers, site_idx, pc, sample_df, tumor_sample_df,
                   normal_sample_df, label_idx, yielded, tpm_data, fpkm_data,
                   fpkm_uq_data, new_gene_ids, new_gene_names, csvs, outcome>>

\* LoopBody that takes the gene axis of every success, not of the first.
LoopBody_overwrite(r) ==
    IF r.exception # "none"
    THEN /\ pc' = "raised"
         /\ UNCHANGED <<tpm_data, fpkm_data, fpkm_uq_data, new_gene_ids,
                        new_gene_names>>
    ELSE /\ pc' = pc
         /\ IF r.tpm_series # None
            THEN /\ tpm_data' = Append(tpm_data, r.tpm_series[1])
                 /\ fpkm_data' = Append(fpkm_data, r.fpkm_series[1])
                 /\ fpkm_uq_data' = Append(fpkm_uq_data, r.fpkm_uq_series[1])
                 /\ IF r.gene_ids # None
                    THEN /\ new_gene_ids' = r.gene_ids
                         /\ new_gene_names' = r.gene_names
                    ELSE UNCHANGED <<new_gene_ids, new_gene_names>>
            ELSE UNCHANGED <<tpm_data, fpkm_data, fpkm_uq_data,
                             new_gene_ids, new_gene_names>>

\* LoopBody that puts each new series in front of the builders.
LoopBody_prepend(r) ==
    IF r.exception # "none"
    THEN /\ pc' = "raised"
         /\ UNCHANGED <<tpm_data, fpkm_data, fpkm_uq_data, new_gene_ids,
                        new_gene_names>>
    ELSE /\ pc' = pc
         /\ IF r.tpm_series # None
            THEN /\ tpm_data' = <<r.tpm_series[1]>> \o tpm_data
                 /\ fpkm_data' = <<r.fpkm_series[1]>> \o fpkm_data
                 /\ fpkm_uq_data' = <<r.fpkm_uq_series[1]>> \o fpkm_uq_data
                 /\ IF new_gene_ids = None /\ r.gene_ids # None
                    THEN /\ new_gene_ids' = r.gene_ids
                         /\ new_gene_names' = r.gene_names
                    ELSE UNCHANGED <<new_gene_ids, new_gene_names>>
            ELSE UNCHANGED <<tpm_data, fpkm_data, fpkm_uq_data,
                             new_gene_ids, new_gene_names>>

\* LoopBody that forgets the fpkm_uq builder.
LoopBody_skip_uq(r) ==
    IF r.exception # "none"
    THEN /\ pc' = "raised"
         /\ UNCHANGED <<tpm_data, fpkm_data, fpkm_uq_data, new_gene_ids,
                        new_gene_names>>
    ELSE /\ pc' = pc
         /\ IF r.tpm_series # None
            THEN /\ tpm_data' = Append(tpm_data, r.tpm_series[1])
                 /\ fpkm_data' = Append(fpkm_data, r.fpkm_series[1])
                 /\ fpkm_uq_data' = fpkm_uq_data
                 /\ IF new_gene_ids = None /\ r.gene_ids # None
                    THEN /\ new_gene_ids' = r.gene_ids
                         /\ new_gene_names' = r.gene_names
                    ELSE UNCHANGED <<new_gene_ids, new_gene_names>>
            ELSE UNCHANGED <<tpm_data, fpkm_data, fpkm_uq_data,
                             new_gene_ids, new_gene_names>>

\* Lines 129-136, the body of the loop, on what future.result() gives.
\* future.result() raises again what the unit raised; nothing catches it.
LoopBody(r) ==
    IF r.exception # "none"
    THEN /\ pc' = "raised"
         /\ UNCHANGED <<tpm_data, fpkm_data, fpkm_uq_data, new_gene_ids,
                        new_gene_names>>
    ELSE /\ pc' = pc
         /\ IF r.tpm_series # None
            THEN /\ tpm_data' = Append(tpm_data, r.tpm_series[1])
                 /\ fpkm_data' = Append(fpkm_data, r.fpkm_series[1])
                 /\ fpkm_uq_data' = Append(fpkm_uq_data, r.fpkm_uq_series[1])
                 /\ IF new_gene_ids = None /\ r.gene_ids # None
                    THEN /\ new_gene_ids' = r.gene_ids
                         /\ new_gene_names' = r.gene_names
                    ELSE UNCHANGED <<new_gene_ids, new_gene_names>>
            ELSE UNCHANGED <<tpm_data, fpkm_data, fpkm_uq_data,
                             new_gene_ids, new_gene_names>>

\* Consume yielding a finished future whether or not it was yielded before.
Consume_again(i) ==
    /\ pc = "collect"
    /\ i \in Finished
    /\ Len(yielded) < Len(futures)
    /\ yielded' = Append(yielded, i)
    /\ LoopBody(futures[i].result[1])
    /\ UNCHANGED <<unit, max_workers, site_idx, sample_df, tumor_sample_df,
                   normal_sample_df, label_idx, futures, csvs, outcome>>

\* Lines 128-136: as_completed yields a finished future that it has not
\* yielded yet (in any order among those finished), and the loop body
\* folds its result into the builders.
Consume(i) ==
    /\ pc = "collect"
    /\ i \in Finished
    /\ i \notin Range(yielded)
    /\ yielded' = Append(yielded, i)
    /\ LoopBody(futures[i].result[1])
    /\ UNCHANGED <<unit, max_workers, site_idx, sample_df, tumor_sample_df,
                   normal_sample_df, label_idx, futures, csvs, outcome>>

\* The loop left at the first outcome (a break in its body).
Collected_early == pc = "collect" /\ Len(yielded) >= 1

\* as_completed is exhausted and the with block has been left.
Collected == pc = "collect" /\ Len(yielded) = Len(futures)

\* Lines 138-140: no valid data, the group is skipped.
EmptyGroup ==
    /\ Collected
    /\ tpm_data = <<>>
    /\ outcome' = [outcome EXCEPT ![labels[label_idx]] = "no_valid"]
    /\ NextGroup
    /\ UNCHANGED <<unit, max_workers, sample_df, tumor_sample_df, normal_sample_df,
                   futures, yielded, tpm_data, fpkm_data, fpkm_uq_data,
                   new_gene_ids, new_gene_names, csvs>>

\* The three matrices of lines 143-154.
Matrices ==
    [tpm     |-> BuildMatrix(tpm_data, new_gene_ids[1], new_gene_names[1]),
     fpkm    |-> BuildMatrix(fpkm_data, new_gene_ids[1], new_gene_names[1]),
     fpkm_uq |-> BuildMatrix(fpkm_uq_data, new_gene_ids[1], new_gene_names[1])]

MatricesOk == Matrices.tpm.ok /\ Matrices.fpkm.ok /\ Matrices.fpkm_uq.ok

\* Lines 142-167: the matrices are built and written to OUTPUT_DIR.
SaveGroup ==
    /\ Collected
    /\ tpm_data # <<>>
    /\ MatricesOk
    /\ csvs' = [csvs EXCEPT ![labels[label_idx]] =
                    Some([tpm     |-> Matrices.tpm.matrix,
                          fpkm    |-> Matrices.fpkm.matrix,
                          fpkm_uq |-> Matrices.fpkm_uq.matrix])]
    /\ outcome' = [outcome EXCEPT ![labels[label_idx]] = "saved"]
    /\ NextGroup
    /\ UNCHANGED <<unit, max_workers, sample_df, tumor_sample_df, normal_sample_df,
                   futures, yielded, tpm_data, fpkm_data, fpkm_uq_data,
                   new_gene_ids, new_gene_names>>

\* Lines 142-154: DataFrame.insert raises ValueError; nothing catches it, so
\* it leaves generate_expression_csvs and the run ends.
InsertRaises ==
    /\ Collected
    /\ tpm_data # <<>>
    /\ ~MatricesOk
    /\ outcome' = [outcome EXCEPT ![labels[label_idx]] = "raised"]
    /\ pc' = "raised"
    /\ UNCHANGED <<unit, max_workers, site_idx, sample_df, tumor_sample_df,
                   normal_sample_df, label_idx, futures, yielded, tpm_data,
                   fpkm_data, fpkm_uq_data, new_gene_ids, new_gene_names, csvs>>

Next ==
    \/ SkipSite
    \/ StartSite
    \/ SkipGroup
    \/ StartGroup
    \/ Submit
    \/ \E i \in DOMAIN futures : Start(i)
    \/ \E i \in DOMAIN futures : Finish(i)
    \/ \E i \in DOMAIN futures : Consume(i)
    \/ EmptyGroup
    \/ SaveGroup
    \/ InsertRaises

Spec == Init /\ [][Next]_vars

\* The steps of the main thread (lines 98-167) and of the pool's threads.
MainThread ==
    \/ SkipSite \/ StartSite \/ SkipGroup \/ StartGroup \/ Submit
    \/ \E i \in DOMAIN futures : Consume(i)
    \/ EmptyGroup \/ SaveGroup \/ InsertRaises

WorkerThreads ==
    \/ \E i \in DOMAIN futures : Start(i)
    \/ \E i \in DOMAIN futures : Finish(i)

\* Scheduling: the main thread keeps running when it can take a step, and so
\* do the pool's threads; requests.get has timeout=30, so a started unit
\* returns or raises.
Fairness == WF_vars(MainThread) /\ WF_vars(WorkerThreads)

FairSpec == Spec /\ Fairness

-----------------------------------------------------------------------------
(* process_file on its own: a table is drawn, and the same table is read   *)
(* as plain text, gzip-framed, and with its summary rows removed           *)
(* beforehand.                                                              *)

\* An id that holds "N_" but does not start with it.
GN_1 == <<"G", "N", "_", "1">>

UnitIds == {N_unmapped, G1, GN_1}

UnitNames == <<"A", "B", "C", "D">>

\* The cell of row r (gene id gid) under a column.
Cell(col, gid, r) ==
    CASE col = "gene_id"            -> gid
      [] col = "gene_name"          -> UnitNames[r]
      [] col = "gene_type"          -> "protein_coding"
      [] col = "tpm_unstranded"     -> 10 + r
      [] col = "fpkm_unstranded"    -> 20 + r
      [] col = "fpkm_uq_unstranded" -> 30 + r

\* A counts file with the columns of header and one row per id of ids.
Table(header, ids) ==
    <<CommentLine, Line(header)>>
        \o [r \in DOMAIN ids |->
                Line([c \in DOMAIN header |-> Cell(header[c], ids[r], r)])]

\* The non-empty selections of AllColumns, in the order of AllColumns.
Headers ==
    {Rows(AllColumns, S) : S \in SUBSET DOMAIN AllColumns} \ {<<>>}

IdLists == UNION {[1..n -> UnitIds] : n \in 1..MaxRows}

\* The table of lines without the rows whose gene id starts with "N_".
Prefiltered(lines) ==
    With(ColPos(lines[2].cells, "gene_id"), LAMBDA c :
        IF c = 0 THEN lines
        ELSE SubSeq(lines, 1, 2)
                \o SelectSeq(SubSeq(lines, 3, Len(lines)),
                             LAMBDA l : ~startswith(l.cells[c], <<"N", "_">>)))

UnitInit ==
    /\ max_workers = 1
    /\ site_idx = 1
    /\ pc = "site"
    /\ sample_df = <<>>
    /\ tumor_sample_df = <<>>
    /\ normal_sample_df = <<>>
    /\ label_idx = 1
    /\ futures = <<>>
    /\ yielded = <<>>
    /\ tpm_data = <<>>
    /\ fpkm_data = <<>>
    /\ fpkm_uq_data = <<>>
    /\ new_gene_ids = None
    /\ new_gene_names = None
    /\ csvs = NoCsvs
    /\ outcome = NoOutcome
    /\ \E header \in Headers, ids \in IdLists :
          unit = [NoUnit EXCEPT !.lines = Table(header, ids)]

pipeline_vars ==
    <<max_workers, site_idx, pc, sample_df, tumor_sample_df, normal_sample_df,
      label_idx, futures, yielded, tpm_data, fpkm_data, fpkm_uq_data,
      new_gene_ids, new_gene_names, csvs, outcome>>

\* Lines 20-46 on a payload: the local is_gzipped and what is returned.
Call(content, sample_id) ==
    [is_gzipped |-> is_gzipped(content),
     returned   |-> With(ReadAndExtract(content, sample_id), Except)]

CallPlain ==
    /\ unit.lines # <<>>
    /\ unit.plain = None
    /\ unit' = [unit EXCEPT !.plain = Some(Call(Plain(unit.lines), "S1"))]
    /\ UNCHANGED pipeline_vars

CallGzip ==
    /\ unit.lines # <<>>
    /\ unit.gzip = None
    /\ unit' = [unit EXCEPT !.gzip = Some(Call(Gzipped(unit.lines), "S1"))]
    /\ UNCHANGED pipeline_vars

CallFiltered ==
    /\ unit.lines # <<>>
    /\ unit.filtered = None
    /\ unit' = [unit EXCEPT
            !.filtered = Some(Call(Plain(Prefiltered(unit.lines)), "S1"))]
    /\ UNCHANGED pipeline_vars

UnitNext == CallPlain \/ CallGzip \/ CallFiltered

UnitSpec == UnitInit /\ [][UnitNext]_vars

-----------------------------------------------------------------------------
(* What the files of the data endpoint hold, read off the tables above:    *)
(* the reference the properties below compare the program's state with.    *)

\* The files that are served, decode and carry the five required columns.
GoodFiles == {"f1", "f2", "f6", "f7", "f8"}

\* The rows of a metadata frame whose file is good, in the frame's order.
Successes(df) == SelectSeq(df, LAMBDA row : row.file_id \in GoodFiles)

\* The gene rows of each good file, in file order.
AxisIds(file_id) ==
    CASE file_id \in {"f1", "f2"} -> <<G1, G2, G3>>
      [] file_id = "f6" -> <<G1, G2, G3, G4>>
      [] file_id = "f7" -> <<G1, G2>>
      [] file_id = "f8" -> <<G3, G1, G2>>

AxisNames(file_id) ==
    CASE file_id \in {"f1", "f2"} -> <<"A", "B", "C">>
      [] file_id = "f6" -> <<"A", "B", "C", "D">>
      [] file_id = "f7" -> <<"A", "B">>
      [] file_id = "f8" -> <<"C", "A", "B">>

GroupOf(l) == IF l = "tumor" THEN tumor_sample_df ELSE normal_sample_df

Count(s, v) == Cardinality({i \in DOMAIN s : s[i] = v})

\* The sample columns of a finished matrix (all but gene_id, gene_name).
SampleColumns(matrix) == SubSeq(matrix.columns, 3, Len(matrix.columns))

\* The three matrices written for a label.
MatricesOf(l) == {csvs[l][1].tpm, csvs[l][1].fpkm, csvs[l][1].fpkm_uq}

\* The futures of the current group whose unit returned a ParsedSample.
Succeeded(i) == futures[i].result # None /\ futures[i].result[1].tpm_series # None

-----------------------------------------------------------------------------
(* C1: process_file never raises.  A unit whose fetch, decode or           *)
(* extraction fails returns the all-None outcome, and a good file returns  *)
(* a sample; the batch loop is left only after it consumed the outcome of  *)
(* every submitted record.                                                 *)
C1_FailuresContained ==
    /\ \A i \in Finished :
          LET r == futures[i].result[1]
          IN  /\ r.exception = "none"
              /\ futures[i].file_id \notin GoodFiles =>
                    /\ r = AllNone(r.printed)
                    /\ r.printed \in {"Error processing file",
                                      "Missing required columns"}
              /\ futures[i].file_id \in GoodFiles =>
                    /\ r.tpm_series # None /\ r.fpkm_series # None
                    /\ r.fpkm_uq_series # None
                    /\ r.gene_ids # None /\ r.gene_names # None
    /\ pc \notin {"submit", "collect"} => Range(yielded) = DOMAIN futures

\* A group of four whose fetch (f9), decode (f5) and extraction (f10) fail
\* and whose fourth sample, consumed last, is still folded and saved.
C1_Witness ==
    /\ outcome["normal"] = "saved"
    /\ Len(futures) = 4
    /\ {futures[i].file_id : i \in DOMAIN futures} = {"f9", "f5", "f10", "f6"}
    /\ Len(yielded) = 4
    /\ futures[yielded[4]].file_id = "f6"

(* C2: the consumer loop receives each submitted record's outcome exactly  *)
(* once, N in total for a group of N records, and N-K of them are          *)
(* successes when K records fail, for every pool size and interleaving.    *)
C2_ExactlyN ==
    /\ \A p, q \in DOMAIN yielded : p # q => yielded[p] # yielded[q]
    /\ Range(yielded) \subseteq Finished
    /\ Len(tpm_data) = Cardinality({i \in Range(yielded) : Succeeded(i)})
    /\ pc \in {"submit", "collect", "raised"} =>
          /\ Len(futures) <= Len(group_df)
          /\ \A i \in DOMAIN futures :
                /\ futures[i].file_id = group_df[i].file_id
                /\ futures[i].sample_barcode = group_df[i].sample_barcode
    /\ Collected =>
          /\ Len(yielded) = Len(group_df)
          /\ Len(tpm_data) = Len(Successes(group_df))

\* One worker, four records of which one fails, consumed out of order.
C2_Witness ==
    /\ Collected
    /\ max_workers = 1
    /\ Len(group_df) = 4
    /\ Len(tpm_data) = 3
    /\ yielded # <<1, 2, 3, 4>>

(* C3: each of the three matrices of a finalized group has exactly one     *)
(* sample column per successful sample of the group, labelled with its     *)
(* sample_id, and none for a failed sample: N-K sample columns.            *)
C3_OneColumnPerSuccess ==
    \A l \in Range(labels) :
        csvs[l] # None =>
            \A M \in MatricesOf(l) :
                /\ Len(M.cols) = Len(M.columns)
                /\ Len(SampleColumns(M)) = Len(Successes(GroupOf(l)))
                /\ \A row \in Range(GroupOf(l)) :
                      Count(SampleColumns(M), row.sample_barcode) =
                      Cardinality({i \in DOMAIN Successes(GroupOf(l)) :
                            Successes(GroupOf(l))[i].sample_barcode
                                = row.sample_barcode})

\* Three records, the third without fpkm_uq_unstranded: two sample columns.
C3_Witness ==
    /\ csvs["tumor"] # None
    /\ [i \in DOMAIN tumor_sample_df |-> tumor_sample_df[i].file_id]
          = <<"f1", "f2", "f3">>
    /\ Len(SampleColumns(csvs["tumor"][1].fpkm_uq)) = 2
    /\ Len(csvs["tumor"][1].fpkm_uq.index) = 3

\* The successes of the current group among the yielded futures, in the
\* order in which as_completed yielded them.
YieldedSuccesses == SelectSeq(yielded, LAMBDA i : futures[i].file_id \in GoodFiles)

\* The labels whose group ran its batch (it was not skipped for want of rows).
RanLabels ==
    SelectSeq(labels, LAMBDA l : outcome[l] \in {"no_valid", "saved", "raised"})

\* The label whose batch the variables futures and yielded describe.
FuturesLabel ==
    IF pc \in {"submit", "collect"} THEN Some(labels[label_idx])
    ELSE IF RanLabels = <<>> THEN None
    ELSE Some(RanLabels[Len(RanLabels)])

\* The group of label l has ended in one of the two skips.
EmptyOutcome(l) == outcome[l] \in {"no_samples", "no_valid"}

(* C4: a group ends in the empty-group outcome if and only if none of its  *)
(* samples succeeded; with zero successes nothing is written and the run    *)
(* goes on, and with at least one success the three matrices are finalized. *)
C4_EmptyIffNoSuccess ==
    \A l \in Range(labels) :
        outcome[l] # "none" =>
            /\ EmptyOutcome(l) <=> Successes(GroupOf(l)) = <<>>
            /\ Successes(GroupOf(l)) = <<>> => csvs[l] = None /\ pc # "raised"
            /\ Successes(GroupOf(l)) # <<>> =>
                  csvs[l] # None /\ outcome[l] = "saved"

(* C5: the canonical gene axis (ids and names) is unset until the first    *)
(* successful outcome is consumed, is then the gene axis of that first     *)
(* success in the order of consumption, and no later outcome changes it.   *)
C5_CanonicalAxis ==
    IF YieldedSuccesses = <<>>
    THEN new_gene_ids = None /\ new_gene_names = None
    ELSE LET first == futures[Head(YieldedSuccesses)].file_id
         IN  /\ new_gene_ids = Some(AxisIds(first))
             /\ new_gene_names = Some(AxisNames(first))

\* The second record (f1) is consumed first, then a failure, then the first
\* record (f6), whose axis is longer: the axis stays that of f1.
C5_Witness ==
    /\ pc = "collect"
    /\ Len(futures) = 3
    /\ futures[1].file_id = "f6" /\ futures[2].file_id = "f1"
    /\ futures[3].file_id = "f4"
    /\ yielded = <<2, 3, 1>>
    /\ new_gene_ids = Some(<<G1, G2, G3>>)
    /\ Len(tpm_data) = 2

FileNo(file_id) ==
    CASE file_id = "f1" -> 1 [] file_id = "f2" -> 2 [] file_id = "f6" -> 6
      [] file_id = "f7" -> 7 [] file_id = "f8" -> 8

\* The measures of a good file in file order; scale is 10, 20, 30 for tpm,
\* fpkm, fpkm_uq, and the genes of every good file are numbered from 1
\* except in f8, where they stand in the order 3, 1, 2.
MeasureOf(file_id, scale) ==
    IF file_id = "f8"
    THEN <<scale * 8 + 3, scale * 8 + 1, scale * 8 + 2>>
    ELSE [g \in DOMAIN AxisIds(file_id) |-> scale * FileNo(file_id) + g]

(* C7: every finished matrix has gene_id as first and gene_name as second  *)
(* column, holding the canonical ids and names, one row per gene of the    *)
(* canonical axis; the three matrices of a group carry the same axis; with *)
(* exactly one success the matrix has one sample column, and its axis and  *)
(* values are exactly that sample's.                                        *)
C7_GeneAxis ==
    \A l \in Range(labels) :
        csvs[l] # None =>
            /\ \A M \in MatricesOf(l) :
                  /\ Len(M.columns) >= 3
                  /\ M.columns[1] = "gene_id"
                  /\ M.columns[2] = "gene_name"
                  /\ \E row \in Range(Successes(GroupOf(l))) :
                        /\ M.cols[1] = AxisIds(row.file_id)
                        /\ M.cols[2] = AxisNames(row.file_id)
                  /\ \A k \in DOMAIN M.cols : Len(M.cols[k]) = Len(M.index)
                  /\ FuturesLabel = Some(l) =>
                        /\ Some(M.cols[1]) = new_gene_ids
                        /\ Some(M.cols[2]) = new_gene_names
                  /\ M.cols[1] = csvs[l][1].tpm.cols[1]
                  /\ M.cols[2] = csvs[l][1].tpm.cols[2]
            /\ Len(Successes(GroupOf(l))) = 1 =>
                  LET only == Successes(GroupOf(l))[1]
                      out  == csvs[l][1]
                  IN  /\ out.tpm.columns = <<"gene_id", "gene_name", only.sample_barcode>>
                      /\ out.tpm.cols[1] = AxisIds(only.file_id)
                      /\ out.tpm.cols[2] = AxisNames(only.file_id)
                      /\ out.tpm.cols[3] = MeasureOf(only.file_id, 10)
                      /\ out.fpkm.cols[3] = MeasureOf(only.file_id, 20)
                      /\ out.fpkm_uq.cols[3] = MeasureOf(only.file_id, 30)

\* A group with one success (f8, genes in the order 3, 1, 2) and one failure.
C7_Witness ==
    /\ csvs["tumor"] # None
    /\ [i \in DOMAIN tumor_sample_df |-> tumor_sample_df[i].file_id] = <<"f3", "f8">>
    /\ csvs["tumor"][1].fpkm.cols[1] = <<G3, G1, G2>>
    /\ csvs["tumor"][1].fpkm.cols[3] = <<163, 161, 162>>

(* C8: whatever happens in the tumor group of a site, its normal group is  *)
(* still run, and what the normal group writes comes from its own records  *)
(* only.                                                                    *)
C8_GroupsIndependent ==
    /\ (pc \in {"site", "done", "raised"} /\ sample_df # <<>>) =>
          outcome["normal"] # "none"
    /\ csvs["normal"] # None =>
          \A M \in MatricesOf("normal") :
              /\ \A c \in Range(SampleColumns(M)) :
                    \E row \in Range(Successes(normal_sample_df)) :
                        row.sample_barcode = c
              /\ \E row \in Range(Successes(normal_sample_df)) :
                    M.cols[1] = AxisIds(row.file_id)

\* Two successful samples of the group of label l have different gene axes.
DifferingAxes(l) ==
    \E r1, r2 \in Range(Successes(GroupOf(l))) :
        AxisIds(r1.file_id) # AxisIds(r2.file_id)

(* C9: no fatal error inside the core: also when successful samples of a   *)
(* group carry differing gene axes, the aggregation does not raise, the     *)
(* group finalizes its three matrices and the run goes on.                  *)
C9_NoFatalError ==
    /\ pc # "raised"
    /\ \A l \in Range(labels) :
          (DifferingAxes(l) /\ outcome[l] # "none") => csvs[l] # None

-----------------------------------------------------------------------------
\* The sample types whose lower-cased name contains "tumor" / "normal".
TumorTypes == {PrimaryTumor, RecurrentTumor, TumorAdjacentNormal}

NormalTypes == {SolidTissueNormal, BloodDerivedNormal, TumorAdjacentNormal}

TypesOf(l) == IF l = "tumor" THEN TumorTypes ELSE NormalTypes

(* C10: a record is in the tumor group exactly if its lower-cased          *)
(* sample_type contains "tumor", in the normal group exactly if it         *)
(* contains "normal"; a record that contains neither is submitted to no    *)
(* worker and is a column of no matrix.                                     *)
C10_Membership ==
    sample_df # <<>> =>
        /\ tumor_sample_df =
              SelectSeq(sample_df, LAMBDA row : row.sample_type \in TumorTypes)
        /\ normal_sample_df =
              SelectSeq(sample_df, LAMBDA row : row.sample_type \in NormalTypes)
        /\ \A i \in DOMAIN futures :
              \E row \in Range(sample_df) :
                  /\ row.file_id = futures[i].file_id
                  /\ row.sample_barcode = futures[i].sample_barcode
                  /\ FuturesLabel # None
                  /\ row.sample_type \in TypesOf(FuturesLabel[1])
        /\ \A l \in Range(labels) :
              csvs[l] # None =>
                  \A M \in MatricesOf(l) :
                      \A c \in Range(SampleColumns(M)) :
                          \E row \in Range(sample_df) :
                              /\ row.sample_barcode = c
                              /\ row.sample_type \in TypesOf(l)

\* A site with a tumor record, a record of both kinds and a record of
\* neither kind (S7): both groups are saved, S7 is nowhere.
C10_Witness ==
    /\ pc = "done"
    /\ [i \in DOMAIN sample_df |-> sample_df[i].sample_type]
          = <<PrimaryTumor, TumorAdjacentNormal, Metastatic>>
    /\ csvs["tumor"] # None
    /\ csvs["normal"] # None
    /\ SampleColumns(csvs["tumor"][1].tpm) = <<"S3", "S1">>
    /\ SampleColumns(csvs["normal"][1].tpm) = <<"S3">>

-----------------------------------------------------------------------------
(* C11: the groups are a partition of the site's records: no record is in  *)
(* both the tumor and the normal group, so no record is fetched in both    *)
(* group runs and no sample is a column of both a tumor and a normal       *)
(* matrix.                                                                  *)
C11_Partition ==
    sample_df # <<>> =>
        /\ \A row \in Range(sample_df) :
              ~(row \in Range(tumor_sample_df) /\ row \in Range(normal_sample_df))
        /\ (csvs["tumor"] # None /\ csvs["normal"] # None) =>
              Range(SampleColumns(csvs["tumor"][1].tpm))
                \cap Range(SampleColumns(csvs["normal"][1].tpm)) = {}

(* C12: at most max_workers units execute at the same time, however many   *)
(* records the group has; a record waits only while every worker is busy   *)
(* or an older record waits; exactly one unit is submitted per record.     *)
C12_BoundedPool ==
    /\ Cardinality(Running) <= max_workers
    /\ \A i \in Running \cup Finished : \A j \in Pending : i < j
    /\ pc \in {"submit", "collect", "raised"} =>
          /\ Len(futures) <= Len(group_df)
          /\ pc # "submit" => Len(futures) = Len(group_df)
          /\ \A i \in DOMAIN futures :
                [file_id |-> futures[i].file_id,
                 sample_barcode |-> futures[i].sample_barcode,
                 file_name |-> futures[i].file_name]
                = [file_id |-> group_df[i].file_id,
                   sample_barcode |-> group_df[i].sample_barcode,
                   file_name |-> group_df[i].file_name]

\* Four records, two workers: both busy while the other two records wait.
C12_Witness ==
    /\ max_workers = 2
    /\ Len(futures) = 4
    /\ Cardinality(Running) = 2
    /\ Cardinality(Pending) = 2

(* C13: a group's outcome is decided only after the whole batch has        *)
(* completed: while a unit is pending or running, or an outcome is not     *)
(* consumed, the group has no outcome and the loop goes on; once it has    *)
(* one, every record of the group was submitted, finished and consumed.    *)
C13_DecidedAfterBatch ==
    /\ pc \in {"submit", "collect"} => outcome[labels[label_idx]] = "none"
    /\ \A l \in Range(labels) :
          (FuturesLabel = Some(l) /\ outcome[l] # "none") =>
              /\ Len(futures) = Len(GroupOf(l))
              /\ Finished = DOMAIN futures
              /\ Range(yielded) = DOMAIN futures
    /\ pc \notin {"submit", "collect"} => Pending = {} /\ Running = {}

\* A group of four whose first consumed outcome is a failure and which is
\* saved all the same, after all four were consumed.
C13_Witness ==
    /\ outcome["tumor"] = "saved"
    /\ FuturesLabel = Some("tumor")
    /\ Len(yielded) = 4
    /\ futures[yielded[1]].file_id = "f3"

(* C18: no finished matrix has two sample columns with the same label,     *)
(* also when two records of a group carry the same sample_id and both      *)
(* succeed.                                                                 *)
C18_UniqueLabels ==
    \A l \in Range(labels) :
        csvs[l] # None =>
            \A M \in MatricesOf(l) :
                \A p, q \in DOMAIN M.columns :
                    p # q => M.columns[p] # M.columns[q]

(* C19: the three builders hold the same columns (labels and row labels)   *)
(* in the same order, one per successful outcome consumed so far and in    *)
(* the order of consumption, each with the measures of its file, so that a *)
(* consumed failure changes nothing; the canonical axis is set exactly     *)
(* when the builders are not empty.                                         *)
C19_BuildersInStep ==
    /\ Len(tpm_data) = Len(YieldedSuccesses)
    /\ Len(fpkm_data) = Len(YieldedSuccesses)
    /\ Len(fpkm_uq_data) = Len(YieldedSuccesses)
    /\ \A k \in DOMAIN YieldedSuccesses :
          LET f == futures[YieldedSuccesses[k]]
          IN  /\ tpm_data[k].name = f.sample_barcode
              /\ fpkm_data[k].name = f.sample_barcode
              /\ fpkm_uq_data[k].name = f.sample_barcode
              /\ tpm_data[k].values = MeasureOf(f.file_id, 10)
              /\ fpkm_data[k].values = MeasureOf(f.file_id, 20)
              /\ fpkm_uq_data[k].values = MeasureOf(f.file_id, 30)
              /\ fpkm_data[k].index = tpm_data[k].index
              /\ fpkm_uq_data[k].index = tpm_data[k].index
    /\ new_gene_ids # None <=> tpm_data # <<>>
    /\ new_gene_names # None <=> tpm_data # <<>>

\* A failure consumed between two successes: two columns in each builder.
C19_Witness ==
    /\ pc = "collect"
    /\ Len(yielded) = 3
    /\ Succeeded(yielded[1]) /\ ~Succeeded(yielded[2]) /\ Succeeded(yielded[3])
    /\ Len(fpkm_uq_data) = 2
    /\ fpkm_uq_data[1].name # fpkm_uq_data[2].name

-----------------------------------------------------------------------------
(* C14: with fair scheduling and fetches that return or fail, a group run  *)
(* that has started eventually ends with all its outcomes consumed and in  *)
(* the finalized-matrices state or in the empty-group state, for every     *)
(* pool size and every pattern of failures.                                 *)
C14_GroupTerminates ==
    \A l \in Range(labels) :
        (pc = "submit" /\ labels[label_idx] = l)
            ~> (/\ outcome[l] \in {"saved", "no_valid"}
                /\ Range(yielded) = DOMAIN futures)

-----------------------------------------------------------------------------
\* The stand-alone calls made so far, on the drawn table and on its
\* prefiltered copy (both have the same header).
UnitHeader == unit.lines[2].cells

UnitCalls ==
    {c[1] : c \in {unit.plain, unit.gzip, unit.filtered} \ {None}}

MissingColumn ==
    \E k \in DOMAIN required_columns : required_columns[k] \notin Range(UnitHeader)

AllFive(r) ==
    /\ r.tpm_series # None /\ r.fpkm_series # None /\ r.fpkm_uq_series # None
    /\ r.gene_ids # None /\ r.gene_names # None

NoneOfFive(r) ==
    /\ r.tpm_series = None /\ r.fpkm_series = None /\ r.fpkm_uq_series = None
    /\ r.gene_ids = None /\ r.gene_names = None

(* C15: for a payload that was fetched and decoded, the extraction ends in *)
(* the schema failure ("Missing required columns", nothing returned)       *)
(* exactly when one of the five required columns is absent, whichever it   *)
(* is and whatever the rows hold; with all five present it succeeds;       *)
(* nothing is ever returned in part.                                        *)
C15_SchemaFailure ==
    unit.lines # <<>> =>
        \A c \in UnitCalls :
            /\ c.returned.printed = "Missing required columns" <=> MissingColumn
            /\ ~MissingColumn =>
                  c.returned.printed = "Processed file" /\ AllFive(c.returned)
            /\ MissingColumn => NoneOfFive(c.returned)

-----------------------------------------------------------------------------
\* The gene ids of the drawn table, in file order; the positions of those
\* that do not start with "N_", stated on the characters.
InputIds ==
    [r \in 1..(Len(unit.lines) - 2) |->
        unit.lines[r + 2].cells[CHOOSE c \in DOMAIN UnitHeader :
                                    UnitHeader[c] = "gene_id"]]

IsSummaryId(gid) == Len(gid) >= 2 /\ gid[1] = "N" /\ gid[2] = "_"

KeptRows ==
    SelectSeq([r \in DOMAIN InputIds |-> r], LAMBDA r : ~IsSummaryId(InputIds[r]))

\* What a call on the drawn table has to return: the kept rows, in file
\* order, under their row labels (the prefiltered copy has labels 0, 1, ...).
ExpectedSeries(scale, relabelled) ==
    [name   |-> "S1",
     index  |-> [j \in DOMAIN KeptRows |->
                    IF relabelled THEN j - 1 ELSE KeptRows[j] - 1],
     values |-> [j \in DOMAIN KeptRows |-> scale + KeptRows[j]]]

AsExpected(r, relabelled) ==
    /\ r.gene_ids = Some([j \in DOMAIN KeptRows |-> InputIds[KeptRows[j]]])
    /\ r.gene_names = Some([j \in DOMAIN KeptRows |-> UnitNames[KeptRows[j]]])
    /\ r.tpm_series = Some(ExpectedSeries(10, relabelled))
    /\ r.fpkm_series = Some(ExpectedSeries(20, relabelled))
    /\ r.fpkm_uq_series = Some(ExpectedSeries(30, relabelled))

(* C16: the extraction retains exactly the rows whose gene id does not     *)
(* start with "N_", in file order; ids, names and the three measures come  *)
(* from those same rows; extracting from the table filtered beforehand     *)
(* gives the same sequences.                                                *)
C16_RowFilter ==
    (unit.lines # <<>> /\ ~MissingColumn) =>
        /\ unit.plain # None => AsExpected(unit.plain[1].returned, FALSE)
        /\ unit.gzip # None => AsExpected(unit.gzip[1].returned, FALSE)
        /\ unit.filtered # None => AsExpected(unit.filtered[1].returned, TRUE)

\* A summary row is dropped in front of an id that only holds "N_".
C16_Witness ==
    /\ unit.lines # <<>>
    /\ ~MissingColumn
    /\ InputIds = <<N_unmapped, GN_1>>
    /\ unit.plain # None
    /\ unit.filtered # None
    /\ unit.plain[1].returned.gene_ids = Some(<<GN_1>>)

(* C17: the outcome of a call is the same whether the payload is           *)
(* gzip-framed or plain, and the gzip branch is taken exactly for a        *)
(* payload that starts with the gzip signature.                             *)
C17_FrameTransparency ==
    unit.lines # <<>> =>
        /\ (unit.plain # None /\ unit.gzip # None) =>
              unit.plain[1].returned = unit.gzip[1].returned
        /\ unit.plain # None =>
              (unit.plain[1].is_gzipped <=> Compressed(Plain(unit.lines)))
        /\ unit.gzip # None =>
              (unit.gzip[1].is_gzipped <=> Compressed(Gzipped(unit.lines)))

\* Both framings of a complete table were read, each through its branch.
C17_Witness ==
    /\ unit.plain # None /\ unit.gzip # None
    /\ unit.gzip[1].is_gzipped /\ ~unit.plain[1].is_gzipped
    /\ unit.gzip[1].returned.printed = "Processed file"
    /\ Len(unit.gzip[1].returned.gene_ids[1]) = 2

=============================================================================
